---- MODULE Spec2Model ----
(***************************************************************************)
(* Model of combine_soil_metals.py: the label normaliser                   *)
(* (make_unique_labels), the column resolver (find_col), the schema mapper *)
(* (vlad_map / glob_map and the *_cols_used loops) and the record unifier  *)
(* (reindex / concat / dropna / to_csv).                                   *)
(*                                                                         *)
(* A text is a sequence of characters; a character is a one-character      *)
(* string, or the string "U+XXXX" for a Cyrillic code point.  A table is a *)
(* record [columns, rows]: columns is the sequence of column labels, rows  *)
(* the sequence of rows, each row a sequence of cells aligned with         *)
(* columns.  A cell is NaN or a value.  An optional label (the result of   *)
(* find_col) is <<>> for None and <<label>> for a label.                   *)
(***************************************************************************)
EXTENDS Integers, Sequences, FiniteSets

VARIABLES
    pc,          \* position of the run
    labels,      \* argument of make_unique_labels
    new_labels,  \* its result
    columns,     \* df.columns, argument of find_col
    keys,        \* keys, argument of find_col
    found,       \* result of find_col
    vlad_soil,   \* Source A after cleaning
    global_soil, \* Source B
    vlad_map,    \* field -> optional label
    glob_map,
    vlad_cols_used, \* sequence of <<field, label>> in insertion order
    glob_cols_used,
    combined,    \* the combined table, rows carrying their index
    out_file,    \* <<>>, or <<t>> with t the table written to out_path
    failed       \* the stage whose exception ended the run, or "none"

vars == <<pc, labels, new_labels, columns, keys, found, vlad_soil, global_soil,
          vlad_map, glob_map, vlad_cols_used, glob_cols_used, combined,
          out_file, failed>>

-----------------------------------------------------------------------------
(* Characters *)

UpperCase == <<"A","B","C","D","E","F","G","H","I","J","K","L","M",
               "N","O","P","Q","R","S","T","U","V","W","X","Y","Z","U+041A">>

LowerCase == <<"a","b","c","d","e","f","g","h","i","j","k","l","m",
               "n","o","p","q","r","s","t","u","v","w","x","y","z","U+043A">>

\* Cyrillic lower-case letters of the candidate tokens that have no
\* upper-case partner in the model.
OtherLetters == {"U+0448","U+0438","U+0440","U+043E","U+0442","U+0430",
                 "U+0434","U+043B","U+0433","U+043D","U+044C"}

Digits == <<"0","1","2","3","4","5","6","7","8","9">>

Range(s) == {s[i] : i \in 1..Len(s)}

UpperSet == Range(UpperCase)

\* The lower-case partner of each upper-case letter
LowerOf ==
    [c \in UpperSet |->
        LowerCase[CHOOSE i \in 1..Len(UpperCase) : UpperCase[i] = c]]

\* str.lower() of one character, as re.IGNORECASE compares characters.
Lower(c) == IF c \in UpperSet THEN LowerOf[c] ELSE c

SpaceChars == {" ", "\t", "\n", "\r", "\f"}

\* \s
IsSpace(c) == c \in SpaceChars

WordChars ==
    UpperSet \cup Range(LowerCase) \cup OtherLetters \cup Range(Digits) \cup {"_"}

\* \w : letters, digits and the underscore
IsWord(c) == c \in WordChars

\* str.lower() of a text
LowerText(s) == [i \in 1..Len(s) |-> Lower(s[i])]

\* str.strip() of a text
RECURSIVE Strip(_)
Strip(s) ==
    IF s = <<>> THEN s
    ELSE IF IsSpace(s[1]) THEN Strip(Tail(s))
    ELSE IF IsSpace(s[Len(s)]) THEN Strip(SubSeq(s, 1, Len(s) - 1))
    ELSE s

-----------------------------------------------------------------------------
(* make_unique_labels *)

\* str(count) for a natural number
RECURSIVE Decimal(_)
Decimal(n) ==
    IF n < 10 THEN <<Digits[n + 1]>>
    ELSE Decimal(n \div 10) \o <<Digits[(n % 10) + 1]>>

\* seen.get(item, 0): seen is a function from the labels met so far
SeenGet(seen, item) == IF item \in DOMAIN seen THEN seen[item] ELSE 0

SeenPut(seen, item, n) ==
    [x \in DOMAIN seen \cup {item} |-> IF x = item THEN n ELSE seen[x]]

\* A faulty variant: the suffix counts from the occurrence number, not the repeats.
SuffixedOffByOne(original, count) == original \o <<"_">> \o Decimal(count + 1)

\* f"{original}_{count}"
Suffixed(original, count) == original \o <<"_">> \o Decimal(count)

RenamedItem(original, count) ==
    IF count > 0 THEN Suffixed(original, count) ELSE original

\* The loop of make_unique_labels from position i on.
RECURSIVE UniqueLoop(_, _, _, _)
UniqueLoop(ls, i, seen, acc) ==
    IF i > Len(ls) THEN acc
    ELSE LET original == ls[i]
             count == SeenGet(seen, original)
         IN  UniqueLoop(ls, i + 1, SeenPut(seen, original, count + 1),
                        Append(acc, RenamedItem(original, count)))

make_unique_labels(ls) == UniqueLoop(ls, 1, <<>>, <<>>)

-----------------------------------------------------------------------------
(* find_col *)

\* Two characters equal under re.IGNORECASE
EqCI(a, b) == Lower(a) = Lower(b)

\* re.escape(k) matched literally at position p of s
MatchAt(s, k, p) ==
    /\ p >= 1
    /\ p + Len(k) - 1 <= Len(s)
    /\ \A i \in 1..Len(k) : EqCI(s[p + i - 1], k[i])

\* The text k stands at position p of s (case-sensitive)
MatchCase(s, k, p) ==
    /\ p >= 1
    /\ p + Len(k) - 1 <= Len(s)
    /\ \A i \in 1..Len(k) : s[p + i - 1] = k[i]

AllSpace(s, i, j) == \A x \in i..j : IsSpace(s[x])

\* '^\s*' + k + '\s*$'
ExactPattern(s, k) ==
    \E p \in 1..(Len(s) + 1) :
        /\ AllSpace(s, 1, p - 1)
        /\ MatchAt(s, k, p)
        /\ AllSpace(s, p + Len(k), Len(s))

\* '.*$' from position q: '.' is any character but a newline, '$' the end
\* of the text or the place before its last character when that is a newline
DotStarEnd(s, q) == \A x \in q..Len(s) : s[x] = "\n" => x = Len(s)

\* k + '[\s,].*$', searched anywhere in s
DelimiterPattern(s, k) ==
    \E p \in 1..(Len(s) + 1) :
        /\ MatchAt(s, k, p)
        /\ p + Len(k) <= Len(s)
        /\ (IsSpace(s[p + Len(k)]) \/ s[p + Len(k)] = ",")
        /\ DotStarEnd(s, p + Len(k) + 1)

WordAt(s, i) == i \in 1..Len(s) /\ IsWord(s[i])

\* \b between positions i and i + 1 of s
WordBoundary(s, i) == WordAt(s, i) # WordAt(s, i + 1)

\* A faulty variant: the token must stand between whitespace or the ends of the text.
WordPatternSpaceBounded(s, k) ==
    \E p \in 1..(Len(s) + 1) :
        /\ MatchAt(s, k, p)
        /\ (p = 1 \/ IsSpace(s[p - 1]))
        /\ (p + Len(k) > Len(s) \/ IsSpace(s[p + Len(k)]))

\* '\b' + k + '\b', searched anywhere in s
WordPattern(s, k) ==
    \E p \in 1..(Len(s) + 1) :
        /\ WordBoundary(s, p - 1)
        /\ MatchAt(s, k, p)
        /\ WordBoundary(s, p + Len(k) - 1)

\* re.search('|'.join(patterns), s, re.IGNORECASE); the join of no pattern
\* is the empty pattern, found in every text
SearchCombined(s, ks) ==
    \/ ks = <<>>
    \/ \E i \in 1..Len(ks) : ExactPattern(s, ks[i])
    \/ \E i \in 1..Len(ks) : DelimiterPattern(s, ks[i])
    \/ \E i \in 1..Len(ks) : WordPattern(s, ks[i])

None == <<>>
Some(l) == <<l>>

\* A faulty variant: a label matching a key exactly is preferred to an earlier match.
FindColExactFirst(cols, ks) ==
    LET exact == SelectSeq(cols, LAMBDA c : \E i \in 1..Len(ks) : ExactPattern(c, ks[i]))
        any   == SelectSeq(cols, LAMBDA c : SearchCombined(c, ks))
    IN  IF exact # <<>> THEN Some(exact[1])
        ELSE IF any # <<>> THEN Some(any[1]) ELSE None

find_col(cols, ks) ==
    LET matching == SelectSeq(cols, LAMBDA c : SearchCombined(c, ks))
    IN  IF matching # <<>> THEN Some(matching[1]) ELSE None

-----------------------------------------------------------------------------
(* Values shared by the specifications *)

\* A missing cell (pandas reads an empty cell as NaN)
NaN == <<>>

EmptyTable == [columns |-> <<>>, rows |-> <<>>]

\* All sequences over S of length at most n
SeqsUpTo(S, n) == UNION {[1..k -> S] : k \in 0..n}

\* The run of the script has not started: no table, no mapping, no file.
PipelineIdle ==
    /\ vlad_soil = EmptyTable
    /\ global_soil = EmptyTable
    /\ vlad_map = <<>>
    /\ glob_map = <<>>
    /\ vlad_cols_used = <<>>
    /\ glob_cols_used = <<>>
    /\ combined = EmptyTable
    /\ out_file = <<>>
    /\ failed = "none"

PipelineVars == <<vlad_soil, global_soil, vlad_map, glob_map, vlad_cols_used,
                  glob_cols_used, combined, out_file, failed>>

-----------------------------------------------------------------------------
(* Specification SpecLabels: make_unique_labels on every bounded input *)

MaxLabels == 3

LabelPool == { <<"A">>, <<"B">>, <<"A","_","1">>, <<"A","_","2">> }

InitLabels ==
    /\ pc = "labels_call"
    /\ labels \in SeqsUpTo(LabelPool, MaxLabels)
    /\ new_labels = <<>>
    /\ columns = <<>>
    /\ keys = <<>>
    /\ found = None
    /\ PipelineIdle

MakeUniqueLabelsCall ==
    /\ pc = "labels_call"
    /\ new_labels' = make_unique_labels(labels)
    /\ pc' = "labels_done"
    /\ UNCHANGED <<labels, columns, keys, found, PipelineVars>>

NextLabels == MakeUniqueLabelsCall

SpecLabels == InitLabels /\ [][NextLabels]_vars

-----------------------------------------------------------------------------
(* Specification SpecFind: find_col on one-column tables with every label  *)
(* over a small alphabet, and on tables of several named labels            *)

MaxLabelLen == 3
MaxCols == 3

FindAlphabet == {"P", "p", "a", "s", ",", " ", "_", "-", "\n"}

LblTempC == <<"T","e","m","p",","," ","C">>
LblSample == <<"S","a","m","p","l","e">>
LblPpmNotes == <<"P","p","m","_","n","o","t","e","s">>
LblPMgKg == <<"P",","," ","m","g","/","k","g">>
LblP == <<"P">>
LblAsMgKg == <<"A","s",","," ","m","g","/","k","g">>
LblArsenicTotal == <<"A","r","s","e","n","i","c","_","t","o","t","a","l">>
LblK == <<"K">>
LblAs == <<"A","s">>

ExampleLabels == {LblTempC, LblSample, LblPpmNotes, LblPMgKg, LblP,
                  LblAsMgKg, LblArsenicTotal, LblK, LblAs}

TablePool == {LblAsMgKg, LblArsenicTotal, LblK, LblAs, LblTempC, LblP, LblSample}

KeysAs == << <<"A","s">>, <<"A","r","s","e","n","i","c">> >>
KeysP == << <<"P">>, <<"P","h","o","s","p","h","o","r","u","s">> >>
KeysK == << <<"K">>, <<"P","o","t","a","s","s","i","u","m">>, <<"K","a","l","i","u","m">> >>

InitFind ==
    /\ pc = "find_call"
    /\ \/ /\ \E l \in SeqsUpTo(FindAlphabet, MaxLabelLen) \cup ExampleLabels :
                columns = <<l>>
          /\ keys \in {KeysAs, KeysP}
       \/ /\ columns \in SeqsUpTo(TablePool, MaxCols)
          /\ keys \in {KeysAs, KeysP, KeysK}
    /\ found = None
    /\ labels = <<>>
    /\ new_labels = <<>>
    /\ PipelineIdle

FindColCall ==
    /\ pc = "find_call"
    /\ found' = find_col(columns, keys)
    /\ pc' = "find_done"
    /\ UNCHANGED <<labels, new_labels, columns, keys, PipelineVars>>

NextFind == FindColCall

SpecFind == InitFind /\ [][NextFind]_vars

-----------------------------------------------------------------------------
(* Claims about make_unique_labels, under SpecLabels *)

\* C2 (as claimed): the sequence returned by make_unique_labels contains
\* no duplicate values, whatever the input.
C2_NoDuplicateLabels ==
    pc = "labels_done" =>
        \A i, j \in 1..Len(new_labels) : i # j => new_labels[i] # new_labels[j]

\* C10: the result has the length of the input; position i holds the
\* original label when no earlier position holds the same label, and
\* otherwise the original label followed by "_" and the number of earlier
\* occurrences; an input without repeats is returned unchanged.
C10_SuffixRule ==
    pc = "labels_done" =>
        /\ Len(new_labels) = Len(labels)
        /\ \A i \in 1..Len(labels) :
              LET k == Cardinality({j \in 1..(i - 1) : labels[j] = labels[i]})
              IN  new_labels[i] =
                      IF k = 0 THEN labels[i]
                      ELSE labels[i] \o <<"_">> \o Decimal(k)
        /\ (\A i, j \in 1..Len(labels) : i # j => labels[i] # labels[j])
              => new_labels = labels

C10_Witness ==
    /\ pc = "labels_done"
    /\ labels = << <<"A">>, <<"A">>, <<"A">> >>
    /\ new_labels = << <<"A">>, <<"A","_","1">>, <<"A","_","2">> >>

-----------------------------------------------------------------------------
(* Claims about find_col, under SpecFind *)

\* A letter or a digit
IsAlnum(c) == IsWord(c) /\ c # "_"

\* The label equals the token, case-insensitively, ignoring surrounding
\* whitespace.
EqualsIgnoringSpace(l, k) == LowerText(Strip(l)) = LowerText(k)

\* The label begins with the token, immediately followed by a comma or
\* whitespace.
BeginsWithDelimited(l, k) ==
    /\ MatchAt(l, k, 1)
    /\ Len(l) > Len(k)
    /\ (IsSpace(l[Len(k) + 1]) \/ l[Len(k) + 1] = ",")

\* The label contains the token with, on each side, a character that is
\* not alphanumeric or an end of the label.
BoundedByNonAlnum(l, k) ==
    \E p \in 1..Len(l) :
        /\ MatchAt(l, k, p)
        /\ (p = 1 \/ ~IsAlnum(l[p - 1]))
        /\ (p + Len(k) > Len(l) \/ ~IsAlnum(l[p + Len(k)]))

\* The label contains the token with, on each side, a character that is
\* neither alphanumeric nor an underscore, or an end of the label.
BoundedByNonWord(l, k) ==
    \E p \in 1..Len(l) :
        /\ MatchAt(l, k, p)
        /\ (p = 1 \/ ~IsWord(l[p - 1]))
        /\ (p + Len(k) > Len(l) \/ ~IsWord(l[p + Len(k)]))

\* C3 (as claimed): find_col returns a label only if, for some token, the
\* label equals the token ignoring surrounding whitespace, or begins with
\* the token followed by a comma or whitespace, or contains the token
\* bounded on both sides by a non-alphanumeric character or an end of the
\* label; token "P" is never matched inside "Temp, C", "Sample" or
\* "Ppm_notes", and is matched in "P" and "P, mg/kg".
C3_BoundarySafety ==
    pc = "find_done" =>
        /\ found # None =>
              \E i \in 1..Len(keys) :
                  \/ EqualsIgnoringSpace(found[1], keys[i])
                  \/ BeginsWithDelimited(found[1], keys[i])
                  \/ BoundedByNonAlnum(found[1], keys[i])
        /\ (keys = KeysP /\ Len(columns) = 1
               /\ columns[1] \in {LblTempC, LblSample, LblPpmNotes}) => found = None
        /\ (keys = KeysP /\ Len(columns) = 1
               /\ columns[1] \in {LblP, LblPMgKg}) => found = Some(columns[1])

\* C4 (as claimed): a label in which some token stands between
\* non-alphanumeric characters or the ends of the label is matched, so
\* find_col returns that label or an earlier one; the underscore counts
\* as such a boundary.
C4_AlnumBoundaryMatches ==
    pc = "find_done" =>
        \A j \in 1..Len(columns) :
            (\E i \in 1..Len(keys) : BoundedByNonAlnum(columns[j], keys[i]))
                => \E n \in 1..j : found = Some(columns[n])

\* C4 (amended): a label in which some token stands between characters
\* that are neither alphanumeric nor an underscore, or the ends of the
\* label, is matched, so find_col returns that label or an earlier one;
\* "Arsenic_total" is not matched by the token "Arsenic".
C4_WordBoundaryMatches ==
    pc = "find_done" =>
        /\ \A j \in 1..Len(columns) :
              (\E i \in 1..Len(keys) : BoundedByNonWord(columns[j], keys[i]))
                  => \E n \in 1..j : found = Some(columns[n])
        /\ (columns = <<LblArsenicTotal>> /\ keys = KeysAs) => found = None

C4_Witness ==
    /\ pc = "find_done"
    /\ columns = << <<"-","p","-">> >>
    /\ keys = KeysP
    /\ found = Some(<<"-","p","-">>)

\* A label satisfies one of the three tiers for one of the tokens.
AnyTier(l, ks) ==
    \E i \in 1..Len(ks) :
        ExactPattern(l, ks[i]) \/ DelimiterPattern(l, ks[i]) \/ WordPattern(l, ks[i])

\* C5: find_col returns the first label, in column order, that satisfies
\* any tier for any token, whichever tier or token it is, and returns None
\* exactly when no label satisfies any tier.
C5_FirstInColumnOrder ==
    pc = "find_done" =>
        /\ found = None <=> \A j \in 1..Len(columns) : ~AnyTier(columns[j], keys)
        /\ found # None =>
              \E j \in 1..Len(columns) :
                  /\ found = Some(columns[j])
                  /\ AnyTier(columns[j], keys)
                  /\ \A n \in 1..(j - 1) : ~AnyTier(columns[n], keys)

\* A delimiter-prefix match stands before an exact match and is returned.
C5_Witness ==
    /\ pc = "find_done"
    /\ columns = <<LblAsMgKg, LblAs>>
    /\ keys = KeysAs
    /\ found = Some(LblAsMgKg)

-----------------------------------------------------------------------------
(* The canonical fields and their candidate tokens *)

\* The fields of vlad_map, in the order of the dict literal
VladOrder ==
    <<"Latitude", "Longitude", "Treatment", "As", "Cd", "Co", "Cr", "Cu", "Fe",
      "K", "Mg", "Ni", "Pb", "Zn", "pH", "Ca", "Mn",
      "Ba", "Sr", "Na", "P">>

VladKeys ==
    [Latitude    |-> <<<<"l","a","t">>,
                     <<"U+0448","U+0438","U+0440","U+043E","U+0442","U+0430">>,
                     <<"l","a","t","i","t","u","d","e">>,
                     <<"c","o","o","r","d">>, <<"g","p","s">>>>,
     Longitude   |-> <<<<"l","o","n">>,
                     <<"U+0434","U+043E","U+043B","U+0433","U+043E","U+0442","U+0430">>,
                     <<"l","o","n","g","i","t","u","d","e">>,
                     <<"c","o","o","r","d">>, <<"g","p","s">>>>,
     Treatment   |-> <<<<"C","o","n","t","r","o","l">>,
                     <<"B","a","c","k","g","r","o","u","n","d">>,
                     <<"E","x","p","e","r","i","m","e","n","t","a","l"," ","g","r","o","u","p">>,
                     <<"t","r","e","a","t","m","e","n","t">>,
                     <<"g","r","o","u","p">>,
                     <<"U+041A","U+043E","U+043D","U+0442","U+0440","U+043E","U+043B","U+044C">>>>,
     As          |-> <<<<"A","s">>, <<"A","r","s","e","n","i","c">>>>,
     Cd          |-> <<<<"C","d">>, <<"C","a","d","m","i","u","m">>>>,
     Co          |-> <<<<"C","o">>, <<"C","o","b","a","l","t">>>>,
     Cr          |-> <<<<"C","r">>, <<"C","h","r","o","m","i","u","m">>>>,
     Cu          |-> <<<<"C","u">>, <<"C","o","p","p","e","r">>>>,
     Fe          |-> <<<<"F","e">>, <<"I","r","o","n">>>>,
     K           |-> <<<<"K">>, <<"P","o","t","a","s","s","i","u","m">>,
                     <<"K","a","l","i","u","m">>>>,
     Mg          |-> <<<<"M","g">>, <<"M","a","g","n","e","s","i","u","m">>>>,
     Ni          |-> <<<<"N","i">>, <<"N","i","c","k","e","l">>>>,
     Pb          |-> <<<<"P","b">>, <<"L","e","a","d">>>>,
     Zn          |-> <<<<"Z","n">>, <<"Z","i","n","c">>>>,
     pH          |-> <<<<"p","H">>>>,
     Ca          |-> <<<<"C","a">>, <<"C","a","l","c","i","u","m">>>>,
     Mn          |-> <<<<"M","n">>, <<"M","a","n","g","a","n","e","s","e">>>>,
     Ba          |-> <<<<"B","a">>, <<"B","a","r","i","u","m">>>>,
     Sr          |-> <<<<"S","r">>, <<"S","t","r","o","n","t","i","u","m">>>>,
     Na          |-> <<<<"N","a">>, <<"S","o","d","i","u","m">>>>,
     P           |-> <<<<"P">>, <<"P","h","o","s","p","h","o","r","u","s">>>>]

\* The fields of glob_map, in the order of the dict literal
GlobOrder ==
    <<"Latitude", "Longitude", "As", "Cd", "Co", "Cr", "Cu", "Fe",
      "K", "Mg", "Ni", "Pb", "Zn", "pH", "Ca", "Mn",
      "Ba", "Sr", "Na", "P">>

GlobKeys ==
    [Latitude    |-> <<<<"l","a","t">>,
                     <<"U+0448","U+0438","U+0440","U+043E","U+0442","U+0430">>,
                     <<"l","a","t","i","t","u","d","e">>>>,
     Longitude   |-> <<<<"l","o","n">>,
                     <<"U+0434","U+043E","U+043B","U+0433","U+043E","U+0442","U+0430">>,
                     <<"l","o","n","g","i","t","u","d","e">>>>,
     As          |-> <<<<"a","s">>, <<"a","r","s","e","n","i","c">>>>,
     Cd          |-> <<<<"c","d">>, <<"c","a","d","m","i","u","m">>>>,
     Co          |-> <<<<"c","o">>, <<"c","o","b","a","l","t">>>>,
     Cr          |-> <<<<"c","r">>, <<"c","h","r","o","m","i","u","m">>>>,
     Cu          |-> <<<<"c","u">>, <<"c","o","p","p","e","r">>>>,
     Fe          |-> <<<<"f","e">>, <<"i","r","o","n">>>>,
     K           |-> <<<<"k">>, <<"p","o","t","a">>, <<"k","a","l","i","u","m">>,
                     <<"p","o","t","a","s","s","i","u","m">>>>,
     Mg          |-> <<<<"m","g">>, <<"m","a","g","n","e","s","i","u","m">>>>,
     Ni          |-> <<<<"n","i">>, <<"n","i","c","k","e","l">>>>,
     Pb          |-> <<<<"p","b">>, <<"l","e","a","d">>>>,
     Zn          |-> <<<<"z","n">>, <<"z","i","n","c">>>>,
     pH          |-> <<<<"p","h">>>>,
     Ca          |-> <<<<"c","a">>, <<"c","a","l","c","i","u","m">>>>,
     Mn          |-> <<<<"m","n">>, <<"m","a","n","g","a","n","e","s","e">>>>,
     Ba          |-> <<<<"b","a">>, <<"b","a","r","i","u","m">>>>,
     Sr          |-> <<<<"s","r">>, <<"s","t","r","o","n","t","i","u","m">>>>,
     Na          |-> <<<<"n","a">>, <<"s","o","d","i","u","m">>>>,
     P           |-> <<<<"p">>, <<"p","h","o","s","p","h","o","r","u","s">>>>]

\* ALL_ELEMENTS after 'Treatment' is appended to it
ALL_ELEMENTS ==
    <<"Latitude", "Longitude", "As", "Cd", "Co", "Cr", "Cu", "Fe", "K", "Mg",
      "Ni", "Pb", "Zn", "pH", "Ca", "Mn", "Ba", "Sr", "Na", "P", "Treatment">>

\* Every column name of the renamed tables, in the order sorted() gives
\* Python strings
SortedNames ==
    <<"As", "Ba", "Ca", "Cd", "Co", "Cr", "Cu", "Fe", "K", "Latitude",
      "Longitude", "Mg", "Mn", "Na", "Ni", "P", "Pb", "Sr", "Treatment", "Zn",
      "pH", "source">>

SourceVladimir == <<"v","l","a","d","i","m","i","r">>
SourceGlobal == <<"g","l","o","b","a","l">>

-----------------------------------------------------------------------------
(* Loading and cleaning Source A *)

\* The grid row holding the field names, and the first data row (0-based)
HeaderRow == 3
DataStart == 5

\* astype(str) of a header cell: an empty cell is NaN and reads "nan"
Str(cell) == IF cell = NaN THEN <<"n","a","n">> ELSE cell

StartsWith(s, prefix) == MatchCase(s, prefix, 1)

\* 'sub in s'
Contains(s, sub) == \E p \in 1..(Len(s) + 1) : MatchCase(s, sub, p)

JunkLower ==
    { <<"n","a","n">>,
      <<"u","n","n","a","m","e","d",":"," ","1","0">>,
      <<"u","n","n","a","m","e","d",":"," ","2","2">>,
      <<"u","n","n","a","m","e","d",":"," ","1">> }

StrayLabels ==
    { <<"G","P","S"," ","c","o","o","r","d","i","n","a","t","e","s"," ",
        "o","f"," ","t","h","e"," ","e","x","p","e","r","i","m","e","n","t",
        "a","l"," ","f","i","e","l","d">>,
      <<"5","6","U+00B0","2","5","'","0","2","\""," ","N"," ","4","0",
        "U+00B0","2","5","'","2","5","\""," ","E">> }

\* The condition of cols_to_drop_by_name
IsJunk(col) ==
    \/ LowerText(col) \in JunkLower
    \/ StartsWith(col, <<"n","a","n","_">>)
    \/ StartsWith(col, <<"U","n","n","a","m","e","d",":">>)
    \/ col \in StrayLabels

\* The positions 1, ..., n
Indices(n) == [i \in 1..n |-> i]

\* The table made of the columns at the positions ps of t
TakeColumns(t, ps) ==
    [columns |-> [j \in 1..Len(ps) |-> t.columns[ps[j]]],
     rows    |-> [r \in 1..Len(t.rows) |->
                     [j \in 1..Len(ps) |-> t.rows[r][ps[j]]]]]

\* df.drop(columns=names, errors='ignore'): every column so labelled goes
DropColumns(t, names) ==
    TakeColumns(t, SelectSeq(Indices(Len(t.columns)),
                          LAMBDA i : t.columns[i] \notin names))

\* The first column whose lower-cased label holds 'depth' and 'cm', if any
DepthCol(cols) ==
    LET hits == SelectSeq(cols, LAMBDA c :
                    /\ Contains(LowerText(c), <<"d","e","p","t","h">>)
                    /\ Contains(LowerText(c), <<"c","m">>))
    IN  IF hits # <<>> THEN Some(hits[1]) ELSE None

\* 'if depth_col: rename(columns={depth_col: "Depth"})'; an empty label
\* is falsy
RenameDepth(t) ==
    LET d == DepthCol(t.columns)
    IN  IF d # None /\ d[1] # <<>>
        THEN [t EXCEPT !.columns =
                 [j \in 1..Len(t.columns) |->
                     IF t.columns[j] = d[1] THEN <<"D","e","p","t","h">>
                     ELSE t.columns[j]]]
        ELSE t

\* Steps 2 to 9 of the load stage, on a grid of at least HeaderRow + 1 rows
CleanVladimir(grid) ==
    LET new_header == [j \in 1..Len(grid[HeaderRow + 1]) |->
                          Strip(Str(grid[HeaderRow + 1][j]))]
        raw       == [columns |-> new_header,
                      rows |-> SubSeq(grid, DataStart + 1, Len(grid))]
        dropped   == DropColumns(raw, {c \in Range(raw.columns) : IsJunk(c)})
        stripped  == [dropped EXCEPT !.columns =
                         [j \in 1..Len(dropped.columns) |-> Strip(dropped.columns[j])]]
        unique    == [stripped EXCEPT !.columns = make_unique_labels(stripped.columns)]
        renamed   == RenameDepth(unique)
    IN  DropColumns(renamed, {<<"S","a","m","p","l","e">>})

-----------------------------------------------------------------------------
(* The schema mapper *)

\* vlad_map / glob_map: find_col once per field
FieldMap(cols, order, keysOf) ==
    [f \in Range(order) |-> find_col(cols, keysOf[f])]

UsedLabels(used) == {used[n][2] : n \in 1..Len(used)}
UsedFields(used) == {used[n][1] : n \in 1..Len(used)}

\* A faulty variant: a field is kept even when its label is already used.
UsedLoopNoClaimCheck(order, map, cols, i, used) ==
    LET kept == SelectSeq(order, LAMBDA f : map[f] # None /\ map[f][1] \in Range(cols))
    IN  [n \in 1..Len(kept) |-> <<kept[n], map[kept[n]][1]>>]

\* The loop building vlad_cols_used / glob_cols_used from field i on; used
\* holds the pairs <<new, old>> in insertion order
RECURSIVE UsedLoop(_, _, _, _, _)
UsedLoop(order, map, cols, i, used) ==
    IF i > Len(order) THEN used
    ELSE LET new == order[i]
             old == map[new]
         IN  IF /\ old # None
                /\ old[1] \in Range(cols)
                /\ old[1] \notin UsedLabels(used)
             THEN UsedLoop(order, map, cols, i + 1, Append(used, <<new, old[1]>>))
             ELSE UsedLoop(order, map, cols, i + 1, used)

-----------------------------------------------------------------------------
(* The record unifier *)

\* The positions of the columns of cols labelled l, in order
PositionsOf(cols, l) == SelectSeq(Indices(Len(cols)), LAMBDA i : cols[i] = l)

\* df[list_of_labels]: for each label in turn, every column so labelled
RECURSIVE SelectedPositions(_, _, _)
SelectedPositions(cols, wanted, i) ==
    IF i > Len(wanted) THEN <<>>
    ELSE PositionsOf(cols, wanted[i]) \o SelectedPositions(cols, wanted, i + 1)

\* df[list(used.values())].rename(columns={old: new ...}), then
\* df['source'] = tag
RenamedTable(t, used, tag) ==
    LET wanted == [n \in 1..Len(used) |-> used[n][2]]
        ps     == SelectedPositions(t.columns, wanted, 1)
        NewName(l) == used[CHOOSE n \in 1..Len(used) : used[n][2] = l][1]
    IN  [columns |-> [j \in 1..Len(ps) |-> NewName(t.columns[ps[j]])] \o <<"source">>,
         rows    |-> [r \in 1..Len(t.rows) |->
                         [j \in 1..Len(ps) |-> t.rows[r][ps[j]]] \o <<tag>>]]

\* A faulty variant: only the first table's columns are kept.
AllColsOfFirst(acols, bcols) ==
    SelectSeq(SortedNames, LAMBDA n : n \in Range(acols))

\* sorted(set(vlad.columns) | set(global_df.columns))
AllCols(acols, bcols) ==
    SelectSeq(SortedNames, LAMBDA n : n \in Range(acols) \cup Range(bcols))

HasDuplicates(cols) ==
    \E i, j \in 1..Len(cols) : i # j /\ cols[i] = cols[j]

\* df.reindex(columns=all_cols) of a table without duplicate labels
Reindex(t, all_cols) ==
    [columns |-> all_cols,
     rows    |-> [r \in 1..Len(t.rows) |->
                     [j \in 1..Len(all_cols) |->
                         IF all_cols[j] \in Range(t.columns)
                         THEN t.rows[r][CHOOSE q \in 1..Len(t.columns) :
                                           t.columns[q] = all_cols[j]]
                         ELSE NaN]]]

\* A faulty variant: the second table's rows come first.
ConcatSecondFirst(a, b) ==
    [columns |-> a.columns,
     rows    |-> [k \in 1..(Len(a.rows) + Len(b.rows)) |->
                     [index |-> k - 1, cells |-> (b.rows \o a.rows)[k]]]]

\* pd.concat([a, b], ignore_index=True): each row with its fresh index
Concat(a, b) ==
    [columns |-> a.columns,
     rows    |-> [k \in 1..(Len(a.rows) + Len(b.rows)) |->
                     [index |-> k - 1, cells |-> (a.rows \o b.rows)[k]]]]

\* element_cols
ElementCols(cols) ==
    SelectSeq(ALL_ELEMENTS, LAMBDA c : c \in Range(cols) /\ c # "Treatment")

ColumnPos(cols, c) == CHOOSE q \in 1..Len(cols) : cols[q] = c

\* dropna(subset=subset, how='all'): a row stays when a cell of subset is
\* not missing; the rows keep their index
DropNa(t, subset) ==
    [t EXCEPT !.rows =
        SelectSeq(t.rows, LAMBDA row :
            \E n \in 1..Len(subset) :
                row.cells[ColumnPos(t.columns, subset[n])] # NaN)]

\* The renamed and tagged tables of the two sources
Vlad == RenamedTable(vlad_soil, vlad_cols_used, SourceVladimir)
GlobalDf == RenamedTable(global_soil, glob_cols_used, SourceGlobal)

\* The table 'combined' before the rows are dropped
Unified ==
    LET all_cols == AllCols(Vlad.columns, GlobalDf.columns)
    IN  Concat(Reindex(Vlad, all_cols), Reindex(GlobalDf, all_cols))

-----------------------------------------------------------------------------
(* Specification Spec: the run of the script *)

MaxRows == 2

HdrLat == <<" ","L","a","t">>
HdrControl == <<"C","o","n","t","r","o","l">>
HdrGPS == <<"G","P","S">>
HdrAsMg1 == <<"A","s",","," ","m","g","_","1">>
HdrAsMg == <<"A","s",","," ","m","g">>
HdrDepth == <<"D","e","p","t","h"," ","o","f"," ","s","o","i","l"," ",
              "s","a","m","p","l","i","n","g",","," ","c","m">>
HdrPb == <<"P","b">>
HdrLongitude == <<"L","o","n","g","i","t","u","d","e">>
HdrArsenic == <<"a","r","s","e","n","i","c">>
HdrCd == <<"C","d">>
HdrNotes == <<"n","o","t","e","s">>

\* Header rows of Source A (row 4 of the sheet)
VladHeaders ==
    { <<HdrLat, HdrControl, LblAsMgKg>>,
      <<HdrGPS, LblAs, LblAs>>,
      <<NaN, LblSample, LblP>>,
      <<HdrAsMg1, HdrAsMg, HdrAsMg>>,
      <<HdrDepth, HdrPb>> }

\* The data rows of a sheet: row r holds, in column j, the value 10 r + j
\* where present is true and nothing elsewhere
DataRows(present) ==
    [r \in 1..Len(present) |->
        [j \in 1..Len(present[r]) |->
            IF present[r][j] THEN Decimal(10 * r + j) ELSE NaN]]

\* A sheet: three title rows, the header row, a gap row, the data rows
Grid(header, present) ==
    LET blank == [j \in 1..Len(header) |-> NaN]
    IN  <<blank, blank, blank, header, blank>> \o DataRows(present)

\* A sheet that ends before the header row
ShortGrid == << <<NaN>>, <<NaN>> >>

VladGrids ==
    UNION { {Grid(h, m) : m \in SeqsUpTo([1..Len(h) -> BOOLEAN], MaxRows)} :
            h \in VladHeaders }
    \cup {ShortGrid}

\* Source B as read_csv returns it (its labels are distinct)
GlobalTables ==
    { [columns |-> <<HdrLongitude, HdrArsenic>>,
       rows |-> << <<<<"6","1">>, NaN>>, <<NaN, <<"7","2">>>>, <<NaN, NaN>> >>],
      [columns |-> <<HdrCd, HdrNotes>>,
       rows |-> << <<NaN, <<"6","2">>>>, <<<<"7","1">>, <<"7","2">>>> >>],
      [columns |-> <<HdrNotes>>,
       rows |-> << <<<<"6","1">>>> >>] }

Init ==
    /\ pc = "makedirs"
    /\ labels = <<>>
    /\ new_labels = <<>>
    /\ columns = <<>>
    /\ keys = <<>>
    /\ found = None
    /\ PipelineIdle

Idle == <<labels, new_labels, columns, keys, found>>

\* os.makedirs(..., exist_ok=True)
MakeDirs ==
    /\ pc = "makedirs"
    /\ pc' = "load_vladimir"
    /\ UNCHANGED <<Idle, PipelineVars>>

MakeDirsError ==
    /\ pc = "makedirs"
    /\ pc' = "aborted"
    /\ failed' = "makedirs"
    /\ UNCHANGED <<Idle, vlad_soil, global_soil, vlad_map, glob_map,
                   vlad_cols_used, glob_cols_used, combined, out_file>>

\* A faulty variant: the exception is reported and the run goes on with no table.
ReadVladimirErrorSwallowed ==
    /\ pc = "load_vladimir"
    /\ pc' = "load_global"
    /\ failed' = "vladimir"
    /\ UNCHANGED <<Idle, vlad_soil, global_soil, vlad_map, glob_map,
                   vlad_cols_used, glob_cols_used, combined, out_file>>

\* read_excel raises: the except clause reports and raises again
ReadVladimirError ==
    /\ pc = "load_vladimir"
    /\ pc' = "aborted"
    /\ failed' = "vladimir"
    /\ UNCHANGED <<Idle, vlad_soil, global_soil, vlad_map, glob_map,
                   vlad_cols_used, glob_cols_used, combined, out_file>>

\* The try block: read the sheet and clean it; iloc[3] raises on a sheet
\* of fewer than four rows
LoadVladimir ==
    /\ pc = "load_vladimir"
    /\ \E grid \in VladGrids :
          IF Len(grid) > HeaderRow
          THEN /\ vlad_soil' = CleanVladimir(grid)
               /\ pc' = "load_global"
               /\ UNCHANGED failed
          ELSE /\ pc' = "aborted"
               /\ failed' = "vladimir"
               /\ UNCHANGED vlad_soil
    /\ UNCHANGED <<Idle, global_soil, vlad_map, glob_map, vlad_cols_used,
                   glob_cols_used, combined, out_file>>

LoadGlobal ==
    /\ pc = "load_global"
    /\ global_soil' \in GlobalTables
    /\ pc' = "map"
    /\ UNCHANGED <<Idle, vlad_soil, vlad_map, glob_map, vlad_cols_used,
                   glob_cols_used, combined, out_file, failed>>

\* read_excel / read_csv of Source B raises; nothing catches it
ReadGlobalError ==
    /\ pc = "load_global"
    /\ pc' = "aborted"
    /\ failed' = "global"
    /\ UNCHANGED <<Idle, vlad_soil, global_soil, vlad_map, glob_map,
                   vlad_cols_used, glob_cols_used, combined, out_file>>

MapColumns ==
    /\ pc = "map"
    /\ vlad_map' = FieldMap(vlad_soil.columns, VladOrder, VladKeys)
    /\ glob_map' = FieldMap(global_soil.columns, GlobOrder, GlobKeys)
    /\ pc' = "select"
    /\ UNCHANGED <<Idle, vlad_soil, global_soil, vlad_cols_used,
                   glob_cols_used, combined, out_file, failed>>

SelectUsed ==
    /\ pc = "select"
    /\ vlad_cols_used' = UsedLoop(VladOrder, vlad_map, vlad_soil.columns, 1, <<>>)
    /\ glob_cols_used' = UsedLoop(GlobOrder, glob_map, global_soil.columns, 1, <<>>)
    /\ pc' = "unify"
    /\ UNCHANGED <<Idle, vlad_soil, global_soil, vlad_map, glob_map,
                   combined, out_file, failed>>

\* Rename, tag, reindex and concatenate
Unify ==
    /\ pc = "unify"
    /\ ~HasDuplicates(Vlad.columns)
    /\ ~HasDuplicates(GlobalDf.columns)
    /\ combined' = Unified
    /\ pc' = "dropna"
    /\ UNCHANGED <<Idle, vlad_soil, global_soil, vlad_map, glob_map,
                   vlad_cols_used, glob_cols_used, out_file, failed>>

\* reindex raises on a table with duplicate column labels
UnifyError ==
    /\ pc = "unify"
    /\ HasDuplicates(Vlad.columns) \/ HasDuplicates(GlobalDf.columns)
    /\ pc' = "aborted"
    /\ failed' = "unify"
    /\ UNCHANGED <<Idle, vlad_soil, global_soil, vlad_map, glob_map,
                   vlad_cols_used, glob_cols_used, combined, out_file>>

DropRows ==
    /\ pc = "dropna"
    /\ combined' = DropNa(combined, ElementCols(combined.columns))
    /\ pc' = "save"
    /\ UNCHANGED <<Idle, vlad_soil, global_soil, vlad_map, glob_map,
                   vlad_cols_used, glob_cols_used, out_file, failed>>

\* combined.to_csv(out_path, index=False)
Save ==
    /\ pc = "save"
    /\ out_file' = << [columns |-> combined.columns,
                       rows |-> [k \in 1..Len(combined.rows) |->
                                    combined.rows[k].cells]] >>
    /\ pc' = "done"
    /\ UNCHANGED <<Idle, vlad_soil, global_soil, vlad_map, glob_map,
                   vlad_cols_used, glob_cols_used, combined, failed>>

Next ==
    \/ MakeDirs
    \/ MakeDirsError
    \/ LoadVladimir
    \/ ReadVladimirError
    \/ LoadGlobal
    \/ ReadGlobalError
    \/ MapColumns
    \/ SelectUsed
    \/ Unify
    \/ UnifyError
    \/ DropRows
    \/ Save

Spec == Init /\ [][Next]_vars

-----------------------------------------------------------------------------
(* Claims about the run, under Spec *)

\* The chemical-element and property fields
ElementFields ==
    {"As", "Cd", "Co", "Cr", "Cu", "Fe", "K", "Mg", "Ni", "Pb", "Zn", "pH",
     "Ca", "Mn", "Ba", "Sr", "Na", "P"}

RowsDropped == pc \in {"save", "done"}

\* C1 (as claimed): a row of the concatenated table is in the final table
\* if and only if one of its element fields is not missing; Latitude,
\* Longitude, Treatment and source do not count.
C1_RowKeptIffElementPresent ==
    RowsDropped =>
        \A k \in 1..Len(Unified.rows) :
            LET row == Unified.rows[k]
            IN  (\E n \in 1..Len(combined.rows) : combined.rows[n].index = row.index)
                <=> \E j \in 1..Len(Unified.columns) :
                        /\ Unified.columns[j] \in ElementFields
                        /\ row.cells[j] # NaN

\* The mapping of one source has been resolved.
Resolved ==
    \/ pc \in {"unify", "dropna", "save", "done"}
    \/ pc = "aborted" /\ failed = "unify"

\* used keeps, of the fields of order, those whose label no earlier field
\* resolved to, each with the label it resolved to
CollisionFree(order, map, used) ==
    /\ \A a, b \in 1..Len(used) :
          a # b => used[a][1] # used[b][1] /\ used[a][2] # used[b][2]
    /\ \A n \in 1..Len(used) : map[used[n][1]] = Some(used[n][2])
    /\ \A i \in 1..Len(order) :
          order[i] \in UsedFields(used)
          <=> /\ map[order[i]] # None
              /\ \A e \in 1..(i - 1) : map[order[e]] # map[order[i]]

\* C6: in each source's final mapping every label is used by at most one
\* field; of the fields that resolve to one label the first in the fixed
\* order keeps it and the later ones are left out, as are the fields that
\* resolved to no label.
C6_FirstFieldKeepsLabel ==
    Resolved =>
        /\ CollisionFree(VladOrder, vlad_map, vlad_cols_used)
        /\ CollisionFree(GlobOrder, glob_map, glob_cols_used)

\* Latitude and Longitude both resolve to one label; Latitude keeps it.
C6_Witness ==
    /\ pc = "unify"
    /\ vlad_map["Latitude"] # None
    /\ vlad_map["Longitude"] = vlad_map["Latitude"]
    /\ "Latitude" \in UsedFields(vlad_cols_used)
    /\ "Longitude" \notin UsedFields(vlad_cols_used)

Combined == pc \in {"dropna", "save", "done"}

\* The cell a source row holds for a field: the value of the column the
\* field is mapped to, nothing when the source does not map the field
SourceCell(t, used, r, f) ==
    IF f \in UsedFields(used)
    THEN LET l == used[CHOOSE n \in 1..Len(used) : used[n][1] = f][2]
         IN  t.rows[r][CHOOSE q \in 1..Len(t.columns) : t.columns[q] = l]
    ELSE NaN

\* The row of the combined table with index k comes from Source A when k
\* is below the number of rows of Source A, from Source B otherwise, and
\* holds that row's cells and the source's tag.
CarriesSourceRow(row) ==
    LET nA == Len(vlad_soil.rows)
        k  == row.index
    IN  \A j \in 1..Len(combined.columns) :
            LET f == combined.columns[j]
            IN  row.cells[j] =
                    IF k < nA
                    THEN IF f = "source" THEN SourceVladimir
                         ELSE SourceCell(vlad_soil, vlad_cols_used, k + 1, f)
                    ELSE IF f = "source" THEN SourceGlobal
                         ELSE SourceCell(global_soil, glob_cols_used, k - nA + 1, f)

\* C7: the columns of the combined table are the fields mapped in Source A,
\* those mapped in Source B and source; every row of a source is there
\* with the source's values for the fields the source mapped and a missing
\* value for the others.
C7_UnionAlignment ==
    Combined =>
        /\ Range(combined.columns) =
              UsedFields(vlad_cols_used) \cup UsedFields(glob_cols_used) \cup {"source"}
        /\ ~HasDuplicates(combined.columns)
        /\ pc = "dropna" =>
              /\ Len(combined.rows) = Len(vlad_soil.rows) + Len(global_soil.rows)
              /\ \A k \in 1..Len(combined.rows) : combined.rows[k].index = k - 1
        /\ \A n \in 1..Len(combined.rows) :
              /\ Len(combined.rows[n].cells) = Len(combined.columns)
              /\ CarriesSourceRow(combined.rows[n])

\* Source A maps Latitude, Treatment and As, Source B Longitude and As, and
\* both have rows.
C7_Witness ==
    /\ pc = "dropna"
    /\ UsedFields(vlad_cols_used) = {"Latitude", "Treatment", "As"}
    /\ UsedFields(glob_cols_used) = {"Longitude", "As"}
    /\ combined.columns = <<"As", "Latitude", "Longitude", "Treatment", "source">>
    /\ Len(vlad_soil.rows) = MaxRows
    /\ \A j \in 1..3 : vlad_soil.rows[1][j] # NaN
    /\ Len(combined.rows) = MaxRows + 3

\* C8: a failure to load or clean Source A, or to load Source B, ends the
\* run there: no later stage has run and no output file is written; the
\* output file is written only in a run without failure.
C8_LoadErrorWritesNothing ==
    /\ failed # "none" => pc = "aborted"
    /\ out_file # <<>> => pc = "done" /\ failed = "none"
    /\ failed \in {"vladimir", "global"} =>
          /\ out_file = <<>>
          /\ DOMAIN vlad_map = {}
          /\ DOMAIN glob_map = {}
          /\ vlad_cols_used = <<>>
          /\ glob_cols_used = <<>>
          /\ combined = EmptyTable
    /\ failed = "vladimir" => global_soil = EmptyTable

\* Source A is loaded, the load of Source B fails, the run is over.
C8_Witness ==
    /\ pc = "aborted"
    /\ failed = "global"
    /\ vlad_soil.columns # <<>>
    /\ out_file = <<>>

SourceOf(row) == row.cells[ColumnPos(combined.columns, "source")]

\* C9: in the final table the rows of Source A precede those of Source B,
\* the rows of a source keep their order, every row carries the tag of the
\* source it comes from, and no row is there twice: the rows are, in
\* order, rows of the concatenation of Source A and Source B.  The file
\* holds them in that order.
C9_SourceOrderKept ==
    /\ RowsDropped =>
          LET nA == Len(vlad_soil.rows)
              nB == Len(global_soil.rows)
          IN  /\ \A a, b \in 1..Len(combined.rows) :
                    a < b => combined.rows[a].index < combined.rows[b].index
              /\ \A n \in 1..Len(combined.rows) :
                    /\ combined.rows[n].index \in 0..(nA + nB - 1)
                    /\ SourceOf(combined.rows[n]) =
                          IF combined.rows[n].index < nA
                          THEN SourceVladimir ELSE SourceGlobal
                    /\ CarriesSourceRow(combined.rows[n])
              /\ \A a, b \in 1..Len(combined.rows) :
                    (/\ SourceOf(combined.rows[a]) = SourceGlobal
                     /\ SourceOf(combined.rows[b]) = SourceVladimir) => b < a
    /\ pc = "done" =>
          /\ Len(out_file[1].rows) = Len(combined.rows)
          /\ \A n \in 1..Len(combined.rows) :
                out_file[1].rows[n] = combined.rows[n].cells

\* Rows of both sources are kept, in order, and a row of each is dropped.
C9_Witness ==
    /\ pc = "done"
    /\ Len(vlad_soil.rows) = 2
    /\ Len(global_soil.rows) = 3
    /\ Len(combined.rows) = 3
    /\ combined.rows[1].index = 1
    /\ combined.rows[2].index = 2
    /\ combined.rows[3].index = 3

====
